---- MODULE Spec2Model ----
(***************************************************************************)
(* clipp: a clipboard crate that detects one clipboard provider at first   *)
(* use (src/src/providers.rs, provide), caches the choice in a OnceLock    *)
(* (src/src/lib.rs, CLIP) and dispatches copy/paste to external commands.  *)
(* The model is of the Linux build: the macOS and Windows providers are    *)
(* compiled out by cfg attributes (providers.rs:55-66, 131-142, 184-187).  *)
(***************************************************************************)
EXTENDS Naturals, Sequences, FiniteSets, TLC

(***************************************************************************)
(* Bounds of the model.                                                    *)
(***************************************************************************)
\* longest text handed to copy and longest output a failing tool prints
MaxLen == 2
\* largest number handed to the infallible copy as a Display value
MaxNum == 10
\* threads racing for the first call
NumThreads == 2

(***************************************************************************)
(* Strings are sequences of characters; CR and LF stand for \r and \n.     *)
(***************************************************************************)
Chars == {"a", "CR", "LF"}

Strs == UNION {[1..n -> Chars] : n \in 0..MaxLen}

Digit == <<"0", "1", "2", "3", "4", "5", "6", "7", "8", "9">>

\* values the infallible copy accepts (impl Display): texts and numbers
DisplayVals == [kind : {"str"}, s : Strs, n : {0}]
               \cup [kind : {"num"}, s : {<<>>}, n : 0..MaxNum]

RECURSIVE Decimal(_)
Decimal(n) == IF n < 10 THEN <<Digit[n + 1]>>
              ELSE Decimal(n \div 10) \o <<Digit[(n % 10) + 1]>>

\* format!("{text}"): a str renders as itself, a number as its decimal digits
format(d) == IF d.kind = "str" THEN d.s ELSE Decimal(d.n)

(***************************************************************************)
(* io::Result values and the panic outcome.                                *)
(***************************************************************************)
NoRet == [tag |-> "None", val |-> <<>>, err |-> ""]
OkUnit == [tag |-> "Ok", val |-> <<>>, err |-> ""]
OkStr(s) == [tag |-> "OkStr", val |-> s, err |-> ""]
Err(e) == [tag |-> "Err", val |-> <<>>, err |-> e]
Panic == [tag |-> "Panic", val |-> <<>>, err |-> ""]

NoProviderMsg == "no clipboard provided available"
WlCopyMsg == "wl-copy was not successful"

(***************************************************************************)
(* The process runner: Command descriptors, eat, put and status.           *)
(* io names the first step of the child's life that goes wrong.            *)
(***************************************************************************)
PutIOs == {"ok", "spawn_fail", "pipe_fail", "wait_fail", "exit_nonzero"}
EatIOs == {"ok", "spawn_fail", "pipe_fail", "exit_nonzero"}
StatusIOs == {"ok", "spawn_fail", "wait_fail", "exit_nonzero"}

NoChild == [argv |-> <<>>, stdin |-> "none", stdout |-> "none",
            stderr |-> "none", input |-> <<>>]

\* the c! macro: Command::new(program).args(...), every stream inherited
c(argv) == [argv |-> argv, stdin |-> "inherit", stdout |-> "inherit",
            stderr |-> "inherit", input |-> <<>>]

\* a variant in which a stream already configured keeps its setting
eat_first_setting(cmd, out, io) ==
    LET self == IF cmd.stdout = "inherit" THEN [cmd EXCEPT !.stdout = "piped"]
                ELSE cmd
    IN  IF io = "spawn_fail"
        THEN [ret |-> Err("spawn"), child |-> NoChild]
        ELSE IF io = "pipe_fail"
        THEN [ret |-> Err("read"), child |-> self]
        ELSE [ret |-> OkStr(IF self.stdout = "piped" THEN out ELSE <<>>),
              child |-> self]

\* Eat::eat: pipe stdout, spawn, read stdout to its end
eat(cmd, out, io) ==
    LET self == [cmd EXCEPT !.stdout = "piped"]
    IN  IF io = "spawn_fail"
        THEN [ret |-> Err("spawn"), child |-> NoChild]
        ELSE IF io = "pipe_fail"
        THEN [ret |-> Err("read"), child |-> self]
        ELSE [ret |-> OkStr(IF self.stdout = "piped" THEN out ELSE <<>>),
              child |-> self]

\* a variant that turns a non-zero exit status into an error
put_checked(cmd, s, io) ==
    LET self == [cmd EXCEPT !.stdin = "piped"]
        ch == [self EXCEPT !.input = s]
    IN  IF io = "spawn_fail"
        THEN [ret |-> Err("spawn"), child |-> NoChild]
        ELSE IF io = "pipe_fail"
        THEN [ret |-> Err("write"), child |-> self]
        ELSE IF io \in {"wait_fail", "exit_nonzero"}
        THEN [ret |-> Err("wait"), child |-> ch]
        ELSE [ret |-> OkUnit, child |-> ch]

\* Put::put: pipe stdin, spawn, write the buffer, wait
put(cmd, s, io) ==
    LET self == [cmd EXCEPT !.stdin = "piped"]
        ch == [self EXCEPT !.input = s]
    IN  IF io = "spawn_fail"
        THEN [ret |-> Err("spawn"), child |-> NoChild]
        ELSE IF io = "pipe_fail"
        THEN [ret |-> Err("write"), child |-> self]
        ELSE IF io = "wait_fail"
        THEN [ret |-> Err("wait"), child |-> ch]
        ELSE [ret |-> OkUnit, child |-> ch]

\* Command::status: spawn with inherited streams and wait for the exit status
status(cmd, io) ==
    IF io = "spawn_fail"
    THEN [ret |-> Err("spawn"), success |-> FALSE, child |-> NoChild]
    ELSE IF io = "wait_fail"
    THEN [ret |-> Err("wait"), success |-> FALSE, child |-> cmd]
    ELSE [ret |-> OkUnit, success |-> (io # "exit_nonzero"), child |-> cmd]

(***************************************************************************)
(* The host: what the clipboard tools do to and print from the clipboard.  *)
(***************************************************************************)
\* a child that was given its whole input and ran to completion took effect
Completed(io) == io \in {"ok", "wait_fail"}

\* what the paste command of a provider appends to the clipboard contents
Trailer(p) == IF p = "Wsl" THEN <<"CR", "LF">>
              ELSE IF p = "Klipper" THEN <<"LF">>
              ELSE <<>>

\* the possible stdout of a provider's paste command
Outputs(p, cl, io) ==
    IF io = "ok" THEN {cl \o Trailer(p)}
    ELSE IF io = "exit_nonzero" THEN Strs
    ELSE {<<>>}

(***************************************************************************)
(* State.                                                                  *)
(***************************************************************************)
VARIABLES
    CLIP,            \* the OnceLock: Empty, or the io::Result provide returned
    clip,            \* the host clipboard's contents
    ret,             \* what the last call returned (or that it panicked)
    lastOp,          \* the entry point or provider operation called last
    hit,             \* whether the last call found CLIP already filled
    runs,            \* how many times provide has been run
    used,            \* the providers calls have been dispatched to
    child,           \* the child process the last call spawned, if any
    pc,              \* per thread: its place in its first call
    op,              \* per thread: the entry point it calls
    seen,            \* per thread: what get_or_init returned to it
    once,            \* the OnceLock's Once: incomplete, running, complete
    local,           \* per thread: provide's result, not yet stored
    how,             \* per thread: how get_or_init got its value
    env,             \* the environment provide probes
    detected,        \* what provide returned for env
    prov,            \* the provider under test
    stage,           \* the provider test's place: start, copied, pasted
    ptext,           \* the text the provider test copied
    cio,             \* how the copy's child fared
    pio,             \* how the paste's child fared
    pout,            \* what the paste's child printed
    pchecks,         \* whether the build that pasted checks overflow
    probed,          \* the probes provide ran for env, in order
    rop,             \* the runner method under way: put or eat
    rpc,             \* its place: start, write, wait, read, returned
    rs,              \* the buffer s: what put writes, what eat has read
    written,         \* how many bytes of s write_all has written
    stdinEnd,        \* the parent's end of the child's stdin pipe
    stdoutEnd,       \* the parent's end of the child's stdout pipe
    proc,            \* the child process: none, running, exited, reaped
    rret             \* what the runner method returned

facadeVars == <<CLIP, ret, lastOp, hit, runs, used>>
hostVars == <<clip, child>>
onceVars == <<pc, op, seen, once, local, how>>
detectVars == <<env, detected, probed>>
testVars == <<prov, stage, ptext, cio, pio, pout, pchecks>>
runnerVars == <<rop, rpc, rs, written, stdinEnd, stdoutEnd, proc, rret>>
vars == <<facadeVars, hostVars, onceVars, detectVars, testVars, runnerVars>>

(***************************************************************************)
(* Providers (impl Clipboard for ...).  A copy yields its result, the      *)
(* child it spawned and the clipboard afterwards; a paste is given what    *)
(* its child prints and yields its result and the child.  oc tells whether *)
(* the build checks arithmetic overflow (a debug build) or wraps.          *)
(***************************************************************************)
Providers == {"Wsl", "Wayland", "XSel", "XClip", "Klipper"}

\* usize::MAX, scaled to the largest integer TLC represents
UsizeMax == 2147483647

\* a - b on usize in a build without overflow checks
wrapping_sub(a, b) == IF a >= b THEN a - b ELSE UsizeMax - (b - a - 1)

\* String::truncate: no effect when new_len exceeds the length
truncate(s, new_len) == IF new_len <= Len(s) THEN SubSeq(s, 1, new_len) ELSE s

ends_with(s, suffix) ==
    /\ Len(s) >= Len(suffix)
    /\ SubSeq(s, Len(s) - Len(suffix) + 1, Len(s)) = suffix

\* the clipboard after a copy command that was fed text
AfterCopy(r, text, io, cl) ==
    [ret |-> r.ret, child |-> r.child,
     clip |-> IF Completed(io) THEN text ELSE cl]

XClip_copy(text, io, cl) ==
    AfterCopy(put(c(<<"xclip", "-selection", "c">>), text, io), text, io, cl)

XClip_paste(out, io) ==
    eat([c(<<"xclip", "-selection", "c", "-o">>)
            EXCEPT !.stderr = "null", !.stdout = "null"], out, io)

XSel_copy(text, io, cl) ==
    AfterCopy(put(c(<<"xsel", "-b", "-i">>), text, io), text, io, cl)

XSel_paste(out, io) == eat(c(<<"xsel", "-b", "-o">>), out, io)


\* a variant that does not look at the exit status of the clear
Wayland_copy_unchecked(text, io, cl) ==
    IF text = <<>>
    THEN LET st == status(c(<<"wl-copy", "-p", "--clear">>), io)
         IN  [ret |-> st.ret, child |-> st.child,
              clip |-> IF Completed(io) THEN <<>> ELSE cl]
    ELSE AfterCopy(put(c(<<"wl-copy", "-p">>), text, io), text, io, cl)

Wayland_copy(text, io, cl) ==
    IF text = <<>>
    THEN LET st == status(c(<<"wl-copy", "-p", "--clear">>), io)
         IN  [ret |-> IF st.ret.tag = "Err" THEN st.ret
                      ELSE IF st.success THEN OkUnit
                      ELSE Err(WlCopyMsg),
              child |-> st.child,
              clip |-> IF Completed(io) THEN <<>> ELSE cl]
    ELSE AfterCopy(put(c(<<"wl-copy", "-p">>), text, io), text, io, cl)

Wayland_paste(out, io) == eat(c(<<"wl-paste", "-n", "-p">>), out, io)

\* the command is built with its argument and dropped: nothing is spawned
Klipper_copy(text, io, cl) ==
    LET cmd == c(<<"qdbus", "org.kde.klipper", "/klipper",
                   "setClipboardContents", text>>)
    IN  [ret |-> OkUnit, child |-> NoChild, clip |-> cl]


RECURSIVE trim_end_newlines(_)
trim_end_newlines(s) ==
    IF ends_with(s, <<"LF">>) THEN trim_end_newlines(SubSeq(s, 1, Len(s) - 1))
    ELSE s

\* a variant that strips every trailing newline
Klipper_paste_trim(out, io) ==
    LET r == eat(c(<<"qdbus", "org.kde.klipper", "/klipper",
                     "getClipboardContents">>), out, io)
        s == r.ret.val
    IN  IF r.ret.tag = "Err" THEN r
        ELSE IF ~ends_with(s, <<"LF">>)
        THEN [ret |-> Panic, child |-> r.child]
        ELSE [ret |-> OkStr(trim_end_newlines(s)), child |-> r.child]

Klipper_paste(out, io) ==
    LET r == eat(c(<<"qdbus", "org.kde.klipper", "/klipper",
                     "getClipboardContents">>), out, io)
        s == r.ret.val
    IN  IF r.ret.tag = "Err" THEN r
        ELSE IF ~ends_with(s, <<"LF">>)
        THEN [ret |-> Panic, child |-> r.child]
        ELSE [ret |-> OkStr(truncate(s, Len(s) - 1)), child |-> r.child]

Wsl_copy(text, io, cl) ==
    AfterCopy(put(c(<<"clip.exe">>), text, io), text, io, cl)

Wsl_paste(out, io, oc) ==
    LET r == eat(c(<<"powershell.exe", "-noprofile", "-command",
                     "Get-Clipboard">>), out, io)
        s == r.ret.val
    IN  IF r.ret.tag = "Err" THEN r
        ELSE IF Len(s) < 2 /\ oc
        THEN [ret |-> Panic, child |-> r.child]
        ELSE [ret |-> OkStr(truncate(s, wrapping_sub(Len(s), 2))),
              child |-> r.child]

\* which child outcomes a provider's copy of text can meet
CopyIOs(p, text) ==
    IF p = "Klipper" THEN {"ok"}
    ELSE IF p = "Wayland" /\ text = <<>> THEN StatusIOs
    ELSE PutIOs

(***************************************************************************)
(* Board: the (copy, paste) pair of one provider.                          *)
(***************************************************************************)
\* get::<T>() = (T::copy, T::paste)
get(p) == p

\* board.0(text)
Board_copy(b, text, io, cl) ==
    CASE b = "XClip" -> XClip_copy(text, io, cl)
      [] b = "XSel" -> XSel_copy(text, io, cl)
      [] b = "Wayland" -> Wayland_copy(text, io, cl)
      [] b = "Klipper" -> Klipper_copy(text, io, cl)
      [] b = "Wsl" -> Wsl_copy(text, io, cl)

\* board.1()
Board_paste(b, out, io, oc) ==
    CASE b = "XClip" -> XClip_paste(out, io)
      [] b = "XSel" -> XSel_paste(out, io)
      [] b = "Wayland" -> Wayland_paste(out, io)
      [] b = "Klipper" -> Klipper_paste(out, io)
      [] b = "Wsl" -> Wsl_paste(out, io, oc)

(***************************************************************************)
(* The selector: has, wsl and provide.                                     *)
(***************************************************************************)
Tools == {"wl-copy", "xsel", "xclip", "klipper", "qdbus"}

\* /proc/version: unreadable, or its contents
ProcVersions == {"unreadable", "Linux", "Linux Microsoft", "Linux microsoft"}

\* an environment: /proc/version, WAYLAND_DISPLAY, the tools on PATH, and
\* whether `which` itself can be spawned
Envs == [procVersion : ProcVersions, waylandDisplay : BOOLEAN,
         installed : SUBSET Tools, whichOk : BOOLEAN]

to_lowercase(v) == IF v = "Linux Microsoft" THEN "linux microsoft"
                   ELSE IF v = "Linux microsoft" THEN "linux microsoft"
                   ELSE IF v = "Linux" THEN "linux"
                   ELSE v

contains_microsoft(v) == v \in {"linux microsoft", "Linux microsoft"}

\* a variant that takes a `which` that cannot be spawned for a success
has_default_true(e, cmd) == ~e.whichOk \/ cmd \in e.installed

\* `which c` with both streams nulled: spawned, and exited with success
has(e, cmd) == e.whichOk /\ cmd \in e.installed

wsl(e) == IF e.procVersion = "unreadable" THEN FALSE
          ELSE contains_microsoft(to_lowercase(e.procVersion))

Empty == [tag |-> "Empty", board |-> "none", err |-> ""]
OkBoard(b) == [tag |-> "Ok", board |-> b, err |-> ""]
ErrBoard(m) == [tag |-> "Err", board |-> "none", err |-> m]


\* a variant that asks for xclip before xsel
provide_xclip_first(e) ==
    IF wsl(e) THEN OkBoard(get("Wsl"))
    ELSE IF e.waylandDisplay /\ has(e, "wl-copy") THEN OkBoard(get("Wayland"))
    ELSE IF has(e, "xclip") THEN OkBoard(get("XClip"))
    ELSE IF has(e, "xsel") THEN OkBoard(get("XSel"))
    ELSE IF has(e, "klipper") /\ has(e, "qdbus") THEN OkBoard(get("Klipper"))
    ELSE ErrBoard(NoProviderMsg)

provide(e) ==
    IF wsl(e) THEN OkBoard(get("Wsl"))
    ELSE IF e.waylandDisplay /\ has(e, "wl-copy") THEN OkBoard(get("Wayland"))
    ELSE IF has(e, "xsel") THEN OkBoard(get("XSel"))
    ELSE IF has(e, "xclip") THEN OkBoard(get("XClip"))
    ELSE IF has(e, "klipper") /\ has(e, "qdbus") THEN OkBoard(get("Klipper"))
    ELSE ErrBoard(NoProviderMsg)

\* the probe has(cmd) runs
which(cmd) == <<"which " \o cmd>>

\* a variant whose && evaluates both operands
probes_eager(e) ==
    <<"/proc/version">> \o
    IF wsl(e) THEN <<>>
    ELSE <<"WAYLAND_DISPLAY">> \o which("wl-copy") \o
    IF e.waylandDisplay /\ has(e, "wl-copy") THEN <<>>
    ELSE which("xsel") \o
    IF has(e, "xsel") THEN <<>>
    ELSE which("xclip") \o
    IF has(e, "xclip") THEN <<>>
    ELSE which("klipper") \o which("qdbus")

\* the probes provide runs, in order: each condition of the if chain is
\* evaluated only when the ones before it were false, and the right operand
\* of && only when the left one was true
probes(e) ==
    <<"/proc/version">> \o
    IF wsl(e) THEN <<>>
    ELSE <<"WAYLAND_DISPLAY">> \o
    (IF e.waylandDisplay THEN which("wl-copy") ELSE <<>>) \o
    IF e.waylandDisplay /\ has(e, "wl-copy") THEN <<>>
    ELSE which("xsel") \o
    IF has(e, "xsel") THEN <<>>
    ELSE which("xclip") \o
    IF has(e, "xclip") THEN <<>>
    ELSE which("klipper") \o
    (IF has(e, "klipper") THEN which("qdbus") ELSE <<>>)

(***************************************************************************)
(* The facade (lib.rs).  Each entry point yields what it returns, the      *)
(* cache afterwards, whether provide ran, the provider it dispatched to,   *)
(* and the clipboard and child afterwards.                                 *)
(***************************************************************************)
\* what provide can return, over all environments
Provided == {provide(e) : e \in Envs}


\* a variant that runs the initializer at every call
get_or_init_always(cell, init) == [val |-> init, ran |-> 1]

\* OnceLock::get_or_init(f): runs f only on an empty cell; init is what f
\* (providers::provide) returns if it is run at this call
get_or_init(cell, init) ==
    IF cell.tag = "Empty" THEN [val |-> init, ran |-> 1]
    ELSE [val |-> cell, ran |-> 0]


\* a variant that lets an error through
unwrap_lenient(r) == r

\* Result::unwrap
unwrap(r) == IF r.tag = "Err" THEN Panic ELSE r

NotDispatched(g, r, cl) ==
    [ret |-> r, cache |-> g.val, ran |-> g.ran, disp |-> {},
     clip |-> cl, child |-> NoChild]

Dispatched(g, r, cl) ==
    [ret |-> r.ret, cache |-> g.val, ran |-> g.ran, disp |-> {g.val.board},
     clip |-> cl, child |-> r.child]

copy(cell, init, text, io, cl) ==
    LET g == get_or_init(cell, init)
    IN  IF g.val.tag = "Err" THEN NotDispatched(g, Panic, cl)
        ELSE LET r == Board_copy(g.val.board, format(text), io, cl)
             IN  Dispatched(g, [r EXCEPT !.ret = unwrap(r.ret)], r.clip)

copy2(cell, init, text, io, cl) ==
    LET g == get_or_init(cell, init)
    IN  IF g.val.tag = "Err" THEN NotDispatched(g, Err(g.val.err), cl)
        ELSE LET r == Board_copy(g.val.board, text, io, cl)
             IN  Dispatched(g, r, r.clip)


\* a variant that detects afresh instead of reading the cache
paste_fresh(cell, init, out, io, oc, cl) ==
    LET g == [val |-> init, ran |-> 0]
    IN  IF g.val.tag = "Err" THEN NotDispatched([g EXCEPT !.val = cell], Panic, cl)
        ELSE LET r == Board_paste(g.val.board, out, io, oc)
                 d == Dispatched(g, [r EXCEPT !.ret = unwrap(r.ret)], cl)
             IN  [d EXCEPT !.cache = IF cell.tag = "Empty" THEN init ELSE cell]

paste(cell, init, out, io, oc, cl) ==
    LET g == get_or_init(cell, init)
    IN  IF g.val.tag = "Err" THEN NotDispatched(g, Panic, cl)
        ELSE LET r == Board_paste(g.val.board, out, io, oc)
             IN  Dispatched(g, [r EXCEPT !.ret = unwrap(r.ret)], cl)


\* a variant that retries detection when the cache holds the error
paste2_retry(cell, init, out, io, oc, cl) ==
    LET g == IF cell.tag = "Ok" THEN [val |-> cell, ran |-> 0]
             ELSE [val |-> init, ran |-> 1]
    IN  IF g.val.tag = "Err" THEN NotDispatched(g, Err(g.val.err), cl)
        ELSE LET r == Board_paste(g.val.board, out, io, oc)
             IN  Dispatched(g, r, cl)

paste2(cell, init, out, io, oc, cl) ==
    LET g == get_or_init(cell, init)
    IN  IF g.val.tag = "Err" THEN NotDispatched(g, Err(g.val.err), cl)
        ELSE LET r == Board_paste(g.val.board, out, io, oc)
             IN  Dispatched(g, r, cl)

(***************************************************************************)
(* Initial conditions of the parts of the state.                           *)
(***************************************************************************)
Threads == 1..NumThreads

EntryPoints == {"copy", "copy2", "paste", "paste2"}

FacadeInit ==
    /\ CLIP = Empty
    /\ ret = NoRet
    /\ lastOp = "none"
    /\ hit = FALSE
    /\ runs = 0
    /\ used = {}

OnceInit ==
    /\ pc = [t \in Threads |-> "start"]
    /\ op = [t \in Threads |-> "none"]
    /\ seen = [t \in Threads |-> Empty]
    /\ local = [t \in Threads |-> Empty]
    /\ how = [t \in Threads |-> "none"]
    /\ once = "incomplete"

NoEnv == [procVersion |-> "unreadable", waylandDisplay |-> FALSE,
          installed |-> {}, whichOk |-> FALSE]

DetectOff == env = NoEnv /\ detected = Empty /\ probed = <<>>

TestOff ==
    /\ prov = "none"
    /\ stage = "off"
    /\ ptext = <<>>
    /\ cio = "none"
    /\ pio = "none"
    /\ pout = <<>>
    /\ pchecks = FALSE

RunnerOff ==
    /\ rop = "none"
    /\ rpc = "off"
    /\ rs = <<>>
    /\ written = 0
    /\ stdinEnd = "none"
    /\ stdoutEnd = "none"
    /\ proc = "none"
    /\ rret = NoRet

(***************************************************************************)
(* Spec: one caller makes any sequence of calls to the four entry points.  *)
(* The environment is whatever it is when a call probes it: a call on an   *)
(* empty cache meets any result provide can return.                        *)
(***************************************************************************)
\* what provide would return at a call on this cell; a filled cell does not
\* run it, so one value stands for all of them
ProvidedFor(cell) == IF cell.tag = "Empty" THEN Provided
                     ELSE {OkBoard(get("XSel"))}

\* the child outcomes a call through the cache value v can meet
CopyIOsOf(v, text) == IF v.tag = "Ok" THEN CopyIOs(v.board, text) ELSE {"ok"}
PasteIOsOf(v) == IF v.tag = "Ok" THEN EatIOs ELSE {"ok"}
OutputsOf(v, cl, io) == IF v.tag = "Ok" THEN Outputs(v.board, cl, io) ELSE {<<>>}

\* the children of a call are gone when it returns
Return(r, o) ==
    /\ CLIP' = r.cache
    /\ ret' = r.ret
    /\ lastOp' = o
    /\ hit' = (r.ran = 0)
    /\ runs' = runs + r.ran
    /\ used' = used \cup r.disp
    /\ clip' = r.clip
    /\ UNCHANGED <<child, onceVars, detectVars, testVars, runnerVars>>

Call_copy ==
    \E init \in ProvidedFor(CLIP), text \in DisplayVals :
        \E io \in CopyIOsOf(get_or_init(CLIP, init).val, format(text)) :
            Return(copy(CLIP, init, text, io, clip), "copy")

Call_copy2 ==
    \E init \in ProvidedFor(CLIP), text \in Strs :
        \E io \in CopyIOsOf(get_or_init(CLIP, init).val, text) :
            Return(copy2(CLIP, init, text, io, clip), "copy2")

Call_paste ==
    \E init \in ProvidedFor(CLIP) :
        \E io \in PasteIOsOf(get_or_init(CLIP, init).val) :
            \E out \in OutputsOf(get_or_init(CLIP, init).val, clip, io) :
                \E oc \in BOOLEAN :
                    Return(paste(CLIP, init, out, io, oc, clip), "paste")

Call_paste2 ==
    \E init \in ProvidedFor(CLIP) :
        \E io \in PasteIOsOf(get_or_init(CLIP, init).val) :
            \E out \in OutputsOf(get_or_init(CLIP, init).val, clip, io) :
                \E oc \in BOOLEAN :
                    Return(paste2(CLIP, init, out, io, oc, clip), "paste2")

Init ==
    /\ FacadeInit
    /\ clip \in Strs
    /\ child = NoChild
    /\ OnceInit
    /\ DetectOff
    /\ TestOff
    /\ RunnerOff

Next == Call_copy \/ Call_copy2 \/ Call_paste \/ Call_paste2

Spec == Init /\ [][Next]_vars

(***************************************************************************)
(* OnceSpec: threads race through CLIP.get_or_init(providers::provide),    *)
(* the first expression of each of the four entry points.                  *)
(***************************************************************************)

\* a variant that lets every thread that finds the cell empty initialize it
CanInit_racy == CLIP.tag = "Empty"

\* a thread may start the initializer only while the Once is incomplete
CanInit == once = "incomplete"

\* OnceLock::get: the cell is readable once the Once is complete
is_initialized == once = "complete"

Enter(t) ==
    /\ pc[t] = "start"
    /\ \E o \in EntryPoints : op' = [op EXCEPT ![t] = o]
    /\ pc' = [pc EXCEPT ![t] = "get_or_init"]
    /\ UNCHANGED <<seen, once, local, how, CLIP, runs>>

\* the cell is already filled: read it
FastPath(t) ==
    /\ pc[t] = "get_or_init"
    /\ is_initialized
    /\ seen' = [seen EXCEPT ![t] = CLIP]
    /\ how' = [how EXCEPT ![t] = "fast"]
    /\ pc' = [pc EXCEPT ![t] = "got"]
    /\ UNCHANGED <<op, once, local, CLIP, runs>>

\* this thread becomes the one that runs the initializer
BeginInit(t) ==
    /\ pc[t] = "get_or_init"
    /\ ~is_initialized
    /\ CanInit
    /\ once' = "running"
    /\ pc' = [pc EXCEPT ![t] = "provide"]
    /\ UNCHANGED <<op, seen, local, how, CLIP, runs>>

\* another thread runs the initializer: block until it is done
Block(t) ==
    /\ pc[t] = "get_or_init"
    /\ ~is_initialized
    /\ ~CanInit
    /\ pc' = [pc EXCEPT ![t] = "wait"]
    /\ UNCHANGED <<op, seen, once, local, how, CLIP, runs>>

Wake(t) ==
    /\ pc[t] = "wait"
    /\ is_initialized
    /\ seen' = [seen EXCEPT ![t] = CLIP]
    /\ how' = [how EXCEPT ![t] = "waited"]
    /\ pc' = [pc EXCEPT ![t] = "got"]
    /\ UNCHANGED <<op, once, local, CLIP, runs>>

\* the initializer: provide probes the environment as it is now
RunProvide(t) ==
    /\ pc[t] = "provide"
    /\ \E init \in Provided : local' = [local EXCEPT ![t] = init]
    /\ runs' = runs + 1
    /\ pc' = [pc EXCEPT ![t] = "store"]
    /\ UNCHANGED <<op, seen, once, how, CLIP>>

\* the value is stored and the Once completed
Store(t) ==
    /\ pc[t] = "store"
    /\ CLIP' = local[t]
    /\ once' = "complete"
    /\ seen' = [seen EXCEPT ![t] = local[t]]
    /\ how' = [how EXCEPT ![t] = "ran"]
    /\ pc' = [pc EXCEPT ![t] = "got"]
    /\ UNCHANGED <<op, local, runs>>

\* the rest of the entry point: unwrap (copy, paste) or ? (copy2, paste2)
\* on the value read, then the call through the board
Proceed(t) ==
    /\ pc[t] = "got"
    /\ pc' = [pc EXCEPT ![t] =
                IF seen[t].tag = "Ok" THEN "dispatch"
                ELSE IF op[t] \in {"copy", "paste"} THEN "panicked"
                ELSE "returned_err"]
    /\ UNCHANGED <<op, seen, once, local, how, CLIP, runs>>

OnceInitial ==
    /\ FacadeInit
    /\ clip = <<>>
    /\ child = NoChild
    /\ OnceInit
    /\ DetectOff
    /\ TestOff
    /\ RunnerOff

OnceFrame == UNCHANGED <<ret, lastOp, hit, used, hostVars, detectVars, testVars,
                         runnerVars>>

OnceNext ==
    \/ \E t \in Threads : Enter(t) /\ OnceFrame
    \/ \E t \in Threads : FastPath(t) /\ OnceFrame
    \/ \E t \in Threads : BeginInit(t) /\ OnceFrame
    \/ \E t \in Threads : Block(t) /\ OnceFrame
    \/ \E t \in Threads : Wake(t) /\ OnceFrame
    \/ \E t \in Threads : RunProvide(t) /\ OnceFrame
    \/ \E t \in Threads : Store(t) /\ OnceFrame
    \/ \E t \in Threads : Proceed(t) /\ OnceFrame

OnceSpec == OnceInitial /\ [][OnceNext]_vars

(***************************************************************************)
(* DetectSpec: provide is run in an environment.                           *)
(***************************************************************************)
Detect ==
    /\ detected = Empty
    /\ detected' = provide(env)
    /\ probed' = probes(env)
    /\ UNCHANGED <<env, facadeVars, hostVars, onceVars, testVars, runnerVars>>

DetectInit ==
    /\ FacadeInit
    /\ clip = <<>>
    /\ child = NoChild
    /\ OnceInit
    /\ env \in Envs
    /\ detected = Empty
    /\ probed = <<>>
    /\ TestOff
    /\ RunnerOff

DetectNext == Detect

DetectSpec == DetectInit /\ [][DetectNext]_vars

(***************************************************************************)
(* ProviderSpec: one provider's copy, then its paste, on a host clipboard, *)
(* as the crate's test drives them (providers.rs:205-232).                 *)
(***************************************************************************)
T_copy ==
    /\ stage = "start"
    /\ \E text \in Strs :
        \E io \in CopyIOs(prov, text) :
            LET r == Board_copy(prov, text, io, clip)
            IN  /\ ret' = r.ret
                /\ clip' = r.clip
                /\ child' = r.child
                /\ ptext' = text
                /\ cio' = io
    /\ stage' = "copied"
    /\ UNCHANGED <<CLIP, lastOp, hit, runs, used, onceVars, detectVars,
                   prov, pio, pout, pchecks, runnerVars>>

T_paste ==
    /\ stage = "copied"
    /\ \E io \in EatIOs :
        \E out \in Outputs(prov, clip, io), oc \in BOOLEAN :
            LET r == Board_paste(prov, out, io, oc)
            IN  /\ ret' = r.ret
                /\ child' = r.child
                /\ pio' = io
                /\ pout' = out
                /\ pchecks' = oc
    /\ stage' = "pasted"
    /\ UNCHANGED <<CLIP, lastOp, hit, runs, used, clip, onceVars, detectVars,
                   prov, ptext, cio, runnerVars>>

ProviderInit ==
    /\ FacadeInit
    /\ clip \in Strs
    /\ child = NoChild
    /\ OnceInit
    /\ DetectOff
    /\ prov \in Providers
    /\ stage = "start"
    /\ ptext = <<>>
    /\ cio = "none"
    /\ pio = "none"
    /\ pout = <<>>
    /\ pchecks = FALSE
    /\ RunnerOff

ProviderNext == T_copy \/ T_paste

ProviderSpec == ProviderInit /\ [][ProviderNext]_vars

(***************************************************************************)
(* RunnerSpec: one run of Put::put or Eat::eat, statement by statement,    *)
(* beside its child process.  The child of put reads its stdin to the end  *)
(* and then exits; the child of eat prints and exits; either can die at    *)
(* any time.                                                               *)
(***************************************************************************)
\* a variant that keeps the handle ch.stdin.take() returned in a binding
drop_kept(h) == h

\* a temporary is dropped when its statement ends: the handle is closed
drop(h) == IF h = "none" THEN "none" ELSE "closed"

\* Child::wait returns once the child has exited
exited(p) == p = "exited"

\* self.stdin(Stdio::piped()).spawn()?
P_spawn ==
    /\ rop = "put" /\ rpc = "start"
    /\ \/ /\ proc' = "running"
          /\ stdinEnd' = "open"
          /\ rpc' = "write"
          /\ rret' = rret
       \/ /\ rret' = Err("spawn")
          /\ rpc' = "returned"
          /\ UNCHANGED <<proc, stdinEnd>>
    /\ UNCHANGED <<rop, rs, written, stdoutEnd>>

\* write_all: one more byte of s goes down the pipe to a running child
P_write ==
    /\ rop = "put" /\ rpc = "write"
    /\ written < Len(rs)
    /\ proc = "running"
    /\ written' = written + 1
    /\ UNCHANGED <<rop, rpc, rs, stdinEnd, stdoutEnd, proc, rret>>

\* write_all returned Ok: the statement ends and the taken handle is dropped
P_written ==
    /\ rop = "put" /\ rpc = "write"
    /\ written = Len(rs)
    /\ stdinEnd' = drop(stdinEnd)
    /\ rpc' = "wait"
    /\ UNCHANGED <<rop, rs, written, stdoutEnd, proc, rret>>

\* write_all(..)? failed: the handle and then ch are dropped, without a wait
P_write_fail ==
    /\ rop = "put" /\ rpc = "write"
    /\ written < Len(rs)
    /\ stdinEnd' = drop(stdinEnd)
    /\ rret' = Err("write")
    /\ rpc' = "returned"
    /\ UNCHANGED <<rop, rs, written, stdoutEnd, proc>>

\* ch.wait()?; Ok(())
P_wait ==
    /\ rop = "put" /\ rpc = "wait"
    /\ exited(proc)
    /\ proc' = "reaped"
    /\ rret' = OkUnit
    /\ rpc' = "returned"
    /\ UNCHANGED <<rop, rs, written, stdinEnd, stdoutEnd>>

\* ch.wait()? failed
P_wait_fail ==
    /\ rop = "put" /\ rpc = "wait"
    /\ rret' = Err("wait")
    /\ rpc' = "returned"
    /\ UNCHANGED <<rop, rs, written, stdinEnd, stdoutEnd, proc>>

\* self.stdout(Stdio::piped()).spawn()?
E_spawn ==
    /\ rop = "eat" /\ rpc = "start"
    /\ \/ /\ proc' = "running"
          /\ stdoutEnd' = "open"
          /\ rpc' = "read"
          /\ rret' = rret
       \/ /\ rret' = Err("spawn")
          /\ rpc' = "returned"
          /\ UNCHANGED <<proc, stdoutEnd>>
    /\ UNCHANGED <<rop, rs, written, stdinEnd>>

\* read_to_string met the end of the child's stdout; Ok(s).  The statement
\* ends: the taken handle and the Child are dropped, and nothing waits
E_read ==
    /\ rop = "eat" /\ rpc = "read"
    /\ proc = "exited"
    /\ stdoutEnd' = drop(stdoutEnd)
    /\ rs' \in Strs
    /\ rret' = OkStr(rs')
    /\ rpc' = "returned"
    /\ UNCHANGED <<rop, written, stdinEnd, proc>>

\* read_to_string(..)? failed: the same drops
E_read_fail ==
    /\ rop = "eat" /\ rpc = "read"
    /\ stdoutEnd' = drop(stdoutEnd)
    /\ rret' = Err("read")
    /\ rpc' = "returned"
    /\ UNCHANGED <<rop, rs, written, stdinEnd, proc>>

\* the child met the end of its input, or had none to read, and exits
ChildFinishes ==
    /\ proc = "running"
    /\ stdinEnd # "open"
    /\ proc' = "exited"
    /\ UNCHANGED <<rop, rpc, rs, written, stdinEnd, stdoutEnd, rret>>

\* the child dies while the parent still holds its stdin
ChildDies ==
    /\ proc = "running"
    /\ stdinEnd = "open"
    /\ proc' = "exited"
    /\ UNCHANGED <<rop, rpc, rs, written, stdinEnd, stdoutEnd, rret>>

RunnerFrame == UNCHANGED <<facadeVars, hostVars, onceVars, detectVars, testVars>>

RunnerInit ==
    /\ FacadeInit
    /\ clip = <<>>
    /\ child = NoChild
    /\ OnceInit
    /\ DetectOff
    /\ TestOff
    /\ rop \in {"put", "eat"}
    /\ rpc = "start"
    /\ rs \in (IF rop = "put" THEN Strs ELSE {<<>>})
    /\ written = 0
    /\ stdinEnd = "none"
    /\ stdoutEnd = "none"
    /\ proc = "none"
    /\ rret = NoRet

RunnerNext ==
    \/ P_spawn /\ RunnerFrame
    \/ P_write /\ RunnerFrame
    \/ P_written /\ RunnerFrame
    \/ P_write_fail /\ RunnerFrame
    \/ P_wait /\ RunnerFrame
    \/ P_wait_fail /\ RunnerFrame
    \/ E_spawn /\ RunnerFrame
    \/ E_read /\ RunnerFrame
    \/ E_read_fail /\ RunnerFrame
    \/ ChildFinishes /\ RunnerFrame
    \/ ChildDies /\ RunnerFrame

RunnerSpec == RunnerInit /\ [][RunnerNext]_vars

(***************************************************************************)
(* Properties.                                                             *)
(***************************************************************************)
Got == {"got", "dispatch", "panicked", "returned_err"}

\* C1: however many threads race through their first call, provide is run
\* exactly once, and every thread that gets a value from get_or_init gets
\* the value that run stored.
C1_DetectionRunsOnce ==
    /\ runs <= 1
    /\ \A t \in Threads :
        pc[t] \in Got => /\ runs = 1
                         /\ CLIP # Empty
                         /\ seen[t] = CLIP

\* a thread ran the initializer while another one blocked on it, and both
\* came out with the same value
C1_Witness ==
    \E t, u \in Threads :
        /\ how[t] = "ran" /\ how[u] = "waited"
        /\ pc[t] \in Got /\ pc[u] \in Got
        /\ seen[t] = seen[u]

IoErrors == {"spawn", "write", "read", "wait", WlCopyMsg}

\* C2: the cache is filled by the first call, by the one run of provide,
\* and no later call, failing or not, changes it or runs provide again.
C2_CacheWrittenOnce ==
    [][/\ CLIP.tag = "Empty" => (CLIP'.tag # "Empty" /\ runs' = 1)
       /\ CLIP.tag # "Empty" => (CLIP' = CLIP /\ runs' = runs /\ runs = 1)]_vars

\* a later call failed with an I/O error and the cache holds its provider
C2_Witness ==
    /\ hit
    /\ ret.tag = "Err" /\ ret.err \in IoErrors
    /\ CLIP.tag = "Ok"
    /\ runs = 1

\* C3: once the cache holds the detection error, every call of copy2 or
\* paste2 returns that error, and no call runs provide again or changes the
\* cache, whatever the environment has become.
C3_StickyDetectionFailure ==
    [][CLIP.tag = "Err" =>
        /\ CLIP' = CLIP
        /\ runs' = runs
        /\ lastOp' \in {"copy2", "paste2"} => ret' = Err(NoProviderMsg)]_vars

\* a later paste2 returned the cached detection error
C3_Witness ==
    /\ CLIP = ErrBoard(NoProviderMsg)
    /\ hit
    /\ lastOp = "paste2"
    /\ ret = Err(NoProviderMsg)
    /\ runs = 1

\* the first rule of the selector's list that matches in e, 0 when none does
RuleMatches(e, i) ==
    CASE i = 1 -> wsl(e)
      [] i = 2 -> e.waylandDisplay /\ has(e, "wl-copy")
      [] i = 3 -> has(e, "xsel")
      [] i = 4 -> has(e, "xclip")
      [] i = 5 -> has(e, "klipper") /\ has(e, "qdbus")

RuleProvider == <<"Wsl", "Wayland", "XSel", "XClip", "Klipper">>

\* C4: provide returns the provider of the first rule that matches, in the
\* order WSL, Wayland, xsel, xclip, Klipper, and the detection error exactly
\* when no rule matches.
C4_FirstMatchingRule ==
    detected # Empty =>
        /\ \A i \in 1..5 :
            (RuleMatches(env, i) /\ \A j \in 1..(i - 1) : ~RuleMatches(env, j))
                => detected = OkBoard(RuleProvider[i])
        /\ detected = ErrBoard(NoProviderMsg)
            <=> \A i \in 1..5 : ~RuleMatches(env, i)

\* xsel and xclip are both installed, with no WSL and no Wayland: xsel won
C4_Witness ==
    /\ detected = OkBoard("XSel")
    /\ has(env, "xsel") /\ has(env, "xclip")

\* C5: every call that reaches a backend goes to the provider the cache
\* holds, so at most one provider is ever used.
C5_OneProvider ==
    /\ Cardinality(used) <= 1
    /\ used # {} => (CLIP.tag = "Ok" /\ used = {CLIP.board})

\* a later infallible paste was dispatched, to the cached provider
C5_Witness ==
    /\ hit
    /\ lastOp = "paste"
    /\ ret.tag = "OkStr"
    /\ used = {CLIP.board}

\* C6: a provider's copy of a non-empty text followed by its paste, both
\* children running cleanly, returns the text.
C6_RoundTrip ==
    (stage = "pasted" /\ ptext # <<>> /\ cio = "ok" /\ pio = "ok")
        => ret = OkStr(ptext)

\* C7: Wayland's copy of the empty text runs `wl-copy -p --clear` with
\* nothing on its stdin, returns Ok exactly when that child exits with status
\* zero, the explanatory error when it exits non-zero and the spawn error
\* when it cannot be spawned.
C7_WaylandEmptyClear ==
    (stage = "copied" /\ prov = "Wayland" /\ ptext = <<>>) =>
        /\ cio = "spawn_fail" => (ret = Err("spawn") /\ child = NoChild)
        /\ cio # "spawn_fail" =>
            /\ child.argv = <<"wl-copy", "-p", "--clear">>
            /\ child.stdin = "inherit"
            /\ child.input = <<>>
        /\ ret = OkUnit <=> cio = "ok"
        /\ cio = "exit_nonzero" => ret = Err(WlCopyMsg)

\* the clear exited non-zero and the copy returned the error
C7_Witness ==
    /\ stage = "copied" /\ prov = "Wayland" /\ ptext = <<>>
    /\ cio = "exit_nonzero"
    /\ ret = Err(WlCopyMsg)

StripCRLF(o) ==
    IF Len(o) >= 2 /\ o[Len(o) - 1] = "CR" /\ o[Len(o)] = "LF"
    THEN SubSeq(o, 1, Len(o) - 2)
    ELSE o

\* C8: the string WSL's paste returns is the PowerShell output with its
\* terminal CR LF removed when it ends in one, and nothing else removed.
C8_StripsOnlyCRLF ==
    (stage = "pasted" /\ prov = "Wsl" /\ ret.tag = "OkStr")
        => ret.val = StripCRLF(pout)

\* C9: when qdbus' output ends with a newline Klipper's paste returns it
\* without that one newline; when it does not, the paste panics.
C9_KlipperPaste ==
    (stage = "pasted" /\ prov = "Klipper" /\ pio \notin {"spawn_fail", "pipe_fail"})
        => IF pout # <<>> /\ pout[Len(pout)] = "LF"
           THEN ret = OkStr(SubSeq(pout, 1, Len(pout) - 1))
           ELSE ret = Panic

\* qdbus printed two newlines and the paste kept the first
C9_Witness ==
    /\ stage = "pasted" /\ prov = "Klipper"
    /\ pout = <<"LF", "LF">>
    /\ ret = OkStr(<<"LF">>)

\* copy against copy2 of the rendered text, and paste against paste2, on the
\* same cache, environment, child outcome, build and clipboard: same Ok, a panic
\* for every Err and for every panic
SameButPanics(a, b) ==
    /\ a.ret.tag \in {"Ok", "OkStr", "Panic"}
    /\ b.ret.tag \in {"Ok", "OkStr"} => a.ret = b.ret
    /\ b.ret.tag \in {"Err", "Panic"} => a.ret = Panic
    /\ a.clip = b.clip
    /\ a.disp = b.disp

CopyPairs ==
    {<<copy(CLIP, init, text, io, clip), copy2(CLIP, init, format(text), io, clip)>> :
        init \in ProvidedFor(CLIP), text \in DisplayVals, io \in PutIOs}

PastePairs ==
    {<<paste(CLIP, init, out, io, oc, clip), paste2(CLIP, init, out, io, oc, clip)>> :
        init \in ProvidedFor(CLIP), out \in Strs, io \in EatIOs, oc \in BOOLEAN}

\* C10 as stated, at the clause that fails: an infallible call returns
\* normally or panics, and a panicking call leaves the cache as it was.
C10_PanicLeavesCache ==
    [][lastOp' \in {"copy", "paste"} =>
        /\ ret'.tag \in {"Ok", "OkStr", "Panic"}
        /\ ret' = Panic => CLIP' = CLIP]_vars

\* C10 amended: the infallible forms agree with the fallible ones, panic
\* where those return Err, and leave the cache as the fallible form leaves
\* it: unchanged when it was filled, filled by this call when it was empty.
C10_InfallibleAsFallible ==
    \A p \in CopyPairs \cup PastePairs :
        /\ SameButPanics(p[1], p[2])
        /\ p[1].cache = p[2].cache
        /\ p[1].ran = p[2].ran
        /\ CLIP.tag # "Empty" => p[1].cache = CLIP
        /\ CLIP.tag = "Empty" => p[1].cache.tag # "Empty"

\* a first call of the infallible copy panicked on the detection error,
\* which it left in the cache
C10_Witness ==
    /\ lastOp = "copy"
    /\ ~hit
    /\ ret = Panic
    /\ CLIP = ErrBoard(NoProviderMsg)

\* C11: put performs spawn, write of the whole buffer, close of the child's
\* stdin and wait in that order: no byte is written before the spawn, the
\* wait begins only with the whole buffer written and the stdin handle
\* closed, and put returns Ok only with the child waited for after its exit.
C11_PutOrder ==
    rop = "put" =>
        /\ (written > 0 \/ rpc \in {"write", "wait"}) => proc # "none"
        /\ rpc = "wait" => (written = Len(rs) /\ stdinEnd = "closed")
        /\ (rpc = "returned" /\ rret = OkUnit) =>
            /\ proc = "reaped"
            /\ written = Len(rs)
            /\ stdinEnd = "closed"

\* put returned Ok for a non-empty buffer, the child reaped
C11_Witness ==
    /\ rop = "put"
    /\ rpc = "returned"
    /\ rret = OkUnit
    /\ Len(rs) > 0
    /\ proc = "reaped"

\* C12: when put or eat has returned, on any path, the child it spawned has
\* been waited on and the parent's pipe handles are closed.
C12_ReleasedAtReturn ==
    rpc = "returned" =>
        /\ proc \in {"none", "reaped"}
        /\ stdinEnd # "open"
        /\ stdoutEnd # "open"

\* the text reached the spawned child: on its piped stdin, or, for the
\* empty text of Wayland, as the --clear flag
CarriesText(ch, text) ==
    IF ch.stdin = "piped" THEN ch.input = text
    ELSE text = <<>> /\ \E i \in 1..Len(ch.argv) : ch.argv[i] = "--clear"

\* C13: whenever a provider's copy has returned Ok, its copy command was
\* spawned with the text and ran to its exit.
C13_CopyOkAfterBackend ==
    (stage = "copied" /\ ret = OkUnit) =>
        /\ child # NoChild
        /\ CarriesText(child, ptext)
        /\ cio \in {"ok", "exit_nonzero"}

\* the copies that go through put
ThroughPut(p, text) == p # "Klipper" /\ ~(p = "Wayland" /\ text = <<>>)

C15_XClipPasteReadsStdout ==
    (stage = "pasted" /\ prov = "XClip" /\ pio \in {"ok", "exit_nonzero"}) =>
        /\ child.argv = <<"xclip", "-selection", "c", "-o">>
        /\ child.stdout = "piped"
        /\ child.stderr = "null"
        /\ ret = OkStr(pout)
        /\ pio = "ok" => ret = OkStr(clip)

\* XClip paste returned the non-empty clipboard text xclip printed
C15_Witness ==
    /\ stage = "pasted"
    /\ prov = "XClip"
    /\ pio = "ok"
    /\ pout # <<>>
    /\ ret = OkStr(pout)

\* the environment in which no tool is on PATH and `which` can be spawned
NoTools(e) == [e EXCEPT !.installed = {}, !.whichOk = TRUE]

\* the environment whose /proc/version is readable and names no Microsoft
NotWsl(e) == [e EXCEPT !.procVersion = "Linux"]

\* C16: a `which` that cannot be spawned counts as every command absent, an
\* unreadable /proc/version as not WSL; provide goes on through its rules
\* and returns a provider or the "no clipboard provider" error, nothing else.
C16_FailedProbeIsNo ==
    detected # Empty =>
        /\ detected \in {OkBoard(get(p)) : p \in Providers}
                            \cup {ErrBoard(NoProviderMsg)}
        /\ ~env.whichOk => detected = provide(NoTools(env))
        /\ env.procVersion = "unreadable" =>
            /\ detected = provide(NotWsl(env))
            /\ detected # OkBoard(get("Wsl"))
            /\ Len(probed) > 1
        /\ (~env.whichOk /\ ~wsl(env)) =>
            /\ detected = ErrBoard(NoProviderMsg)
            /\ probed[Len(probed)] = "which klipper"

\* with every tool installed, /proc/version unreadable and `which` not
\* spawnable, provide went through all rules to the detection error
C16_Witness ==
    /\ env.procVersion = "unreadable"
    /\ ~env.whichOk
    /\ env.installed = Tools
    /\ env.waylandDisplay
    /\ detected = ErrBoard(NoProviderMsg)
    /\ probed = <<"/proc/version", "WAYLAND_DISPLAY", "which wl-copy",
                  "which xsel", "which xclip", "which klipper">>

\* the probes in the order of the rules they belong to
ProbeOrder == <<"/proc/version", "WAYLAND_DISPLAY", "which wl-copy",
                "which xsel", "which xclip", "which klipper", "which qdbus">>

Ran(p) == \E i \in 1..Len(probed) : probed[i] = p

OrderOf(p) == CHOOSE i \in 1..Len(ProbeOrder) : ProbeOrder[i] = p

\* the probe whose answer selects provider b
DecidingProbe(b) ==
    CASE b = "Wsl" -> "/proc/version"
      [] b = "Wayland" -> "which wl-copy"
      [] b = "XSel" -> "which xsel"
      [] b = "XClip" -> "which xclip"
      [] b = "Klipper" -> "which qdbus"

\* C17: provide runs its probes in rule order, a probe of a later rule only
\* when every earlier rule failed, and none after the first match: nothing
\* but /proc/version when WSL is detected, `which wl-copy` only with
\* WAYLAND_DISPLAY present, `which xclip` only after `which xsel` failed,
\* `which qdbus` only after `which klipper` succeeded.
C17_ProbesInOrder ==
    detected # Empty =>
        /\ \A i, j \in 1..Len(probed) :
            i < j => OrderOf(probed[i]) < OrderOf(probed[j])
        /\ wsl(env) => probed = <<"/proc/version">>
        /\ Ran("which wl-copy") => (~wsl(env) /\ env.waylandDisplay)
        /\ Ran("which xsel") =>
            (~wsl(env) /\ ~(env.waylandDisplay /\ has(env, "wl-copy")))
        /\ Ran("which xclip") => (Ran("which xsel") /\ ~has(env, "xsel"))
        /\ Ran("which klipper") => (Ran("which xclip") /\ ~has(env, "xclip"))
        /\ Ran("which qdbus") => (Ran("which klipper") /\ has(env, "klipper"))
        /\ detected.tag = "Ok" =>
            probed[Len(probed)] = DecidingProbe(detected.board)

\* Klipper was selected without WAYLAND_DISPLAY: every rule before it failed
\* and `which wl-copy` was not run although wl-copy is installed
C17_Witness ==
    /\ detected = OkBoard(get("Klipper"))
    /\ "wl-copy" \in env.installed
    /\ probed = <<"/proc/version", "WAYLAND_DISPLAY", "which xsel",
                  "which xclip", "which klipper", "which qdbus">>

\* C18: whatever the length of the PowerShell output, Wsl paste returns Ok
\* or Err and does not panic; in particular for an output shorter than the
\* two bytes it subtracts.
C18_WslPasteNeverPanics ==
    (stage = "pasted" /\ prov = "Wsl") => ret.tag \in {"OkStr", "Err"}

====
